---- MODULE Spec2Model ----
(***************************************************************************)
(* Particle filter of CarND-Kidnapped-Vehicle-Project/src/                 *)
(* particle_filter.cpp.  The file holds two revisions of the filter        *)
(* (lines 1-305 and lines 307-739); `rev' says which one is built.         *)
(*                                                                         *)
(* Numbers.  Positions are integers (metres).  Headings are integers that  *)
(* count quarter turns, so that cos and sin are exact.  A weight is the    *)
(* real number (2*pi)^(-n) * 2^(-j) * exp(-e/8), kept as the record        *)
(* [n, j, e]; it is zero once the exponent leaves the range of a double.   *)
(* Distances are kept squared (sqrt is monotone, only comparisons are      *)
(* made with them).                                                        *)
(***************************************************************************)
EXTENDS Integers, Sequences, FiniteSets, TLC

\* ---- bounds of the model ----
NumParticles == 2     \* stands for num_particles = 100 (line 13) / 200 (line 333)
MaxLen       == 4     \* cap on particles.size(), which init grows without limit
MaxCalls     == 3     \* number of calls made on the filter in one run
ExpLimit     == 12    \* exp(-e/8) underflows to 0.0 beyond this e (745 in a double, scaled)

VARIABLES rev, particles, num_particles, is_initialized, aborted, calls, last

vars == <<rev, particles, num_particles, is_initialized, aborted, calls, last>>

\* ---- numbers ----
DBL_MAX == 1000000

Sq(a) == a * a

\* cos and sin of a heading given in quarter turns
Cos(t) == CASE t % 4 = 0 -> 1 [] t % 4 = 1 -> 0 [] t % 4 = 2 -> -1 [] OTHER -> 0
Sin(t) == CASE t % 4 = 0 -> 0 [] t % 4 = 1 -> 1 [] t % 4 = 2 -> 0 [] OTHER -> -1

\* helper_functions.h dist(), squared
dist(x1, y1, x2, y2) == Sq(x2 - x1) + Sq(y2 - y1)

\* d <= sensor_range, on squared distances
InRange(d, sensor_range) == d <= Sq(sensor_range)

\* ---- weights ----
One  == [z |-> FALSE, n |-> 0, j |-> 0, e |-> 0]
Zero == [z |-> TRUE,  n |-> 0, j |-> 0, e |-> 0]

\* product of two doubles
Mul(a, b) ==
  IF a.z \/ b.z \/ a.e + b.e > ExpLimit THEN Zero
  ELSE [z |-> FALSE, n |-> a.n + b.n, j |-> a.j + b.j, e |-> a.e + b.e]

Log2(k) == CASE k = 1 -> 0 [] k = 2 -> 1 [] OTHER -> 2

\* (1 / (2 * M_PI * std_x * std_y)) * exp(-(sq_diff_x / (2 * var_x) + sq_diff_y / (2 * var_y)))
\* for the differences diff_x, diff_y before squaring
MultiGaussian(diff_x, diff_y, std_landmark) ==
  LET std_x == std_landmark[1]
      std_y == std_landmark[2]
      var_x == std_x * std_x
      var_y == std_y * std_y
      sq_diff_x == diff_x * diff_x
      sq_diff_y == diff_y * diff_y
      e == (4 \div var_x) * sq_diff_x + (4 \div var_y) * sq_diff_y
  IN IF e > ExpLimit THEN Zero
     ELSE [z |-> FALSE, n |-> 1, j |-> Log2(std_x * std_y), e |-> e]

\* ---- the random engine: default_random_engine gen; built afresh in each call ----
LcgA        == 3
LcgM        == 7
DefaultSeed == 1

RECURSIVE EngineState(_)
\* state of a default-constructed engine after k draws
EngineState(k) == IF k = 0 THEN DefaultSeed ELSE (LcgA * EngineState(k - 1)) % LcgM

\* the k-th standard normal sample of a default-constructed engine
Sample(k) == (EngineState(k) % 3) - 1

\* the engine states a call goes through when it draws n samples from the
\* engine it has just built
DrawsOf(n) == [k \in 1..n |-> EngineState(k)]

\* normal_distribution<double> requires 0 < stddev; a build with library
\* assertions stops the program when it is constructed with another value
StdInvalid(std) == \E k \in 1..3 : std[k] <= 0

\* normal_distribution<double>(mean, std)(gen) at the k-th draw
Normal(mean, std, k) == mean + std * Sample(k)

\* ---- inputs the harness may pass ----
\* <<x, y, theta>> of the first estimate
InitPoses    == {<<0, 0, 0>>, <<1, 0, 1>>}
StdTriples   == {<<0, 0, 0>>, <<1, 1, 1>>}
DeltaTs      == {1, 2}
\* <<velocity, yaw_rate, std_pos>>; with a non-zero yaw_rate the velocity is a
\* multiple of it
Controls     == {<<0, 0, <<0, 0, 0>>>>, <<1, 0, <<0, 0, 0>>>>,
                 <<1, 1, <<0, 0, 0>>>>, <<0, 0, <<1, 1, 1>>>>}
SensorRanges == {1, 3}
StdLandmarks == {<<1, 2>>}
ObsLists     == {<< >>, <<[id |-> 0, x |-> 1, y |-> 0]>>,
                 <<[id |-> 0, x |-> 2, y |-> 0], [id |-> 0, x |-> 0, y |-> 1]>>}
Maps         == {<<[id_i |-> 1, x_f |-> 0, y_f |-> 0], [id_i |-> 2, x_f |-> 2, y_f |-> 0]>>}
\* what a read outside a vector may return
Garbage      == {[id_i |-> 0, x_f |-> 0, y_f |-> 0], [id_i |-> 9, x_f |-> 5, y_f |-> 5]}

NoArgs == [none |-> TRUE]

\* the record kept of the last call: its name and arguments, the particles and
\* is_initialized before it, what it associated, the undefined behaviour it
\* ran into, whether it reported a failure, the states its random engine
\* went through, and whether it repeats the previous call
Call(op, args, assoc, ub, raised, draws) ==
  [op |-> op, args |-> args, before |-> particles, wasInit |-> is_initialized,
   assoc |-> assoc, ub |-> ub, raised |-> raised, draws |-> draws,
   repeat |-> (last.op = op /\ last.args = args)]

\* ---- ParticleFilter::init ----
\* the particle made by iteration par_index of the loop
NewParticle(par_index, x, y, theta, std) ==
  [id     |-> par_index,
   x      |-> Normal(x, std[1], 3 * par_index + 1),
   y      |-> Normal(y, std[2], 3 * par_index + 2),
   theta  |-> Normal(theta, std[3], 3 * par_index + 3),
   weight |-> One]

\* particles after the push_back loop
InitParticles(old, n, x, y, theta, std) ==
  old \o [k \in 1..n |-> NewParticle(k - 1, x, y, theta, std)]

init ==
  /\ ~aborted
  /\ calls < MaxCalls
  /\ Len(particles) + NumParticles <= MaxLen
  /\ \E pose \in InitPoses, std \in StdTriples :
     LET x == pose[1]  y == pose[2]  theta == pose[3] IN
       \/ /\ num_particles' = NumParticles
          /\ is_initialized' = TRUE
          /\ particles' = InitParticles(particles, NumParticles, x, y, theta, std)
          /\ last' = Call("init", [x |-> x, y |-> y, theta |-> theta, std |-> std],
                          << >>, {}, FALSE, DrawsOf(3 * NumParticles))
          /\ aborted' = FALSE
       \/ \* the assertion on the standard deviation stops the program
          /\ StdInvalid(std)
          /\ aborted' = TRUE
          /\ UNCHANGED <<num_particles, is_initialized, particles, last>>
  /\ calls' = calls + 1
  /\ UNCHANGED rev

\* ---- ParticleFilter::prediction ----
\* an iteration whose straight-line branch leaves the velocity out
PredictUnitSpeed(p, par_index, delta_t, std_pos, velocity, yaw_rate) ==
  LET prev_theta == p.theta
      x1 == p.x + delta_t * Cos(prev_theta)
      y1 == p.y + delta_t * Sin(prev_theta)
      theta1 == prev_theta + yaw_rate * delta_t
  IN [p EXCEPT !.x     = Normal(x1, std_pos[1], 3 * par_index + 1),
               !.y     = Normal(y1, std_pos[2], 3 * par_index + 2),
               !.theta = Normal(theta1, std_pos[3], 3 * par_index + 3)]

\* one iteration of the loop, for the particle at position par_index (from 0)
Predict(p, par_index, delta_t, std_pos, velocity, yaw_rate) ==
  LET prev_theta == p.theta
      x1 == IF yaw_rate # 0
            THEN p.x + (velocity \div yaw_rate) *
                       (Sin(prev_theta + yaw_rate * delta_t) - Sin(prev_theta))
            ELSE p.x + velocity * delta_t * Cos(prev_theta)
      y1 == IF yaw_rate # 0
            THEN p.y + (velocity \div yaw_rate) *
                       (Cos(prev_theta) - Cos(prev_theta + yaw_rate * delta_t))
            ELSE p.y + velocity * delta_t * Sin(prev_theta)
      theta1 == prev_theta + yaw_rate * delta_t
  IN [p EXCEPT !.x     = Normal(x1, std_pos[1], 3 * par_index + 1),
               !.y     = Normal(y1, std_pos[2], 3 * par_index + 2),
               !.theta = Normal(theta1, std_pos[3], 3 * par_index + 3)]

prediction ==
  /\ ~aborted
  /\ calls < MaxCalls
  /\ \E delta_t \in DeltaTs, c \in Controls :
     LET std_pos == c[3] IN
       \/ /\ particles' = [k \in 1..Len(particles) |->
                             Predict(particles[k], k - 1, delta_t, std_pos, c[1], c[2])]
          /\ last' = Call("prediction",
                          [delta_t |-> delta_t, std_pos |-> std_pos,
                           velocity |-> c[1], yaw_rate |-> c[2]],
                          << >>, {}, FALSE, DrawsOf(3 * Len(particles)))
          /\ aborted' = FALSE
       \/ \* the assertion on the standard deviation stops the program; the
          \* first revision builds the distributions inside the loop
          /\ StdInvalid(std_pos)
          /\ rev = 1 => Len(particles) > 0
          /\ aborted' = TRUE
          /\ UNCHANGED <<particles, last>>
  /\ calls' = calls + 1
  /\ UNCHANGED <<rev, num_particles, is_initialized>>

\* ---- ParticleFilter::convertVehicleToMapCoords ----
\* first revision: works on the observation in place, so the second
\* assignment reads the x the first one has just written
convertVehicleToMapCoords1(observation, particle) ==
  LET x1 == particle.x + observation.x * Cos(particle.theta)
                       - observation.y * Sin(particle.theta)
      y1 == particle.y + x1 * Sin(particle.theta)
                       + observation.y * Cos(particle.theta)
  IN [observation EXCEPT !.x = x1, !.y = y1]

\* second revision: returns a new observation
convertVehicleToMapCoords2(observationToConvert, particle) ==
  [id |-> observationToConvert.id,
   x  |-> particle.x + observationToConvert.x * Cos(particle.theta)
                     - observationToConvert.y * Sin(particle.theta),
   y  |-> particle.y + observationToConvert.x * Sin(particle.theta)
                     + observationToConvert.y * Cos(particle.theta)]

\* ---- ParticleFilter::dataAssociation ----
\* the comparison that lets a landmark replace the nearest one found so far
Closer(currentDistance, minDistance) == currentDistance <= minDistance

RECURSIVE NearestLoop1(_, _, _, _, _, _)
\* first revision, the loop from land_index = k on (indices from 1)
NearestLoop1(sensor_range, landmarks, observation, k, minDistance, indexOfLandmark) ==
  IF k > Len(landmarks) THEN indexOfLandmark
  ELSE LET currentDistance == dist(landmarks[k].x_f, landmarks[k].y_f,
                                   observation.x, observation.y)
       IN IF InRange(currentDistance, sensor_range) /\ Closer(currentDistance, minDistance)
          THEN NearestLoop1(sensor_range, landmarks, observation, k + 1, currentDistance, k)
          ELSE NearestLoop1(sensor_range, landmarks, observation, k + 1,
                            minDistance, indexOfLandmark)

\* first revision: index into the whole map for one observation;
\* indexOfLandmark starts at the first landmark
dataAssociation1(sensor_range, landmarks, observation) ==
  NearestLoop1(sensor_range, landmarks, observation, 1, DBL_MAX, 1)

RECURSIVE NearestLoop2(_, _, _, _, _)
\* second revision, the inner loop from land_index = k on; indexOfLandmark
\* is 0 while nothing has been assigned to it
NearestLoop2(landmarks, observation, k, minDistance, indexOfLandmark) ==
  IF k > Len(landmarks) THEN indexOfLandmark
  ELSE LET currentDistance == dist(landmarks[k].x_f, landmarks[k].y_f,
                                   observation.x, observation.y)
       IN IF Closer(currentDistance, minDistance)
          THEN NearestLoop2(landmarks, observation, k + 1, currentDistance, k)
          ELSE NearestLoop2(landmarks, observation, k + 1, minDistance, indexOfLandmark)

\* the landmark at position idx of a vector; outside the vector the read
\* returns whatever lies there
At(landmarks, idx, garbage) ==
  IF idx \in 1..Len(landmarks) THEN landmarks[idx] ELSE garbage

\* second revision: one associated landmark per observation
dataAssociation2(landmarks, observations, garbage) ==
  [k \in 1..Len(observations) |->
     LET indexOfLandmark == NearestLoop2(landmarks, observations[k], 1, DBL_MAX, 0)
         lm == At(landmarks, indexOfLandmark, garbage)
     IN [idx |-> indexOfLandmark, id |-> lm.id_i, x |-> lm.x_f, y |-> lm.y_f]]

\* ---- ParticleFilter::updateWeights ----
RECURSIVE Product(_, _, _, _, _)
\* the weight accumulated over observations k.. of the loop
Product(acc, associated, converted, std_landmark, k) ==
  IF k > Len(associated) THEN acc
  ELSE Product(Mul(acc, MultiGaussian(associated[k].x - converted[k].x,
                                      associated[k].y - converted[k].y, std_landmark)),
               associated, converted, std_landmark, k + 1)

\* first revision, the body of the loop over particles
UpdateParticle1(p, sensor_range, std_landmark, observations, map_landmarks, garbage) ==
  LET converted  == [k \in 1..Len(observations) |->
                        convertVehicleToMapCoords1(observations[k], p)]
      associated == [k \in 1..Len(observations) |->
                        LET land_index == dataAssociation1(sensor_range, map_landmarks,
                                                           converted[k])
                            lm == At(map_landmarks, land_index, garbage)
                        IN [idx |-> land_index, id |-> lm.id_i, x |-> lm.x_f, y |-> lm.y_f]]
  IN [weight |-> Product(p.weight, associated, converted, std_landmark, 1),
      cands  |-> map_landmarks,
      conv   |-> converted,
      assoc  |-> associated,
      ub     |-> IF Len(observations) > 0 /\ Len(map_landmarks) = 0
                 THEN {"out_of_range_read"} ELSE {}]

\* second revision, the body of the loop over particles
UpdateParticle2(p, sensor_range, std_landmark, observations, map_landmarks, garbage) ==
  LET predicted_landmarks ==
        SelectSeq(map_landmarks,
                  LAMBDA lm : InRange(dist(p.x, p.y, lm.x_f, lm.y_f), sensor_range))
      convertedObservations == [k \in 1..Len(observations) |->
                                  convertVehicleToMapCoords2(observations[k], p)]
      associatedLandmarks == dataAssociation2(predicted_landmarks, convertedObservations,
                                              garbage)
      multi_gaussian == Product(One, associatedLandmarks, convertedObservations,
                                std_landmark, 1)
  IN [weight |-> multi_gaussian,
      cands  |-> predicted_landmarks,
      conv   |-> convertedObservations,
      assoc  |-> associatedLandmarks,
      ub     |-> IF Len(observations) > 0 /\ Len(predicted_landmarks) = 0
                 THEN {"out_of_range_read"} ELSE {}]

UpdateParticle(p, sensor_range, std_landmark, observations, map_landmarks, garbage) ==
  IF rev = 1
  THEN UpdateParticle1(p, sensor_range, std_landmark, observations, map_landmarks, garbage)
  ELSE UpdateParticle2(p, sensor_range, std_landmark, observations, map_landmarks, garbage)

\* some particle makes dataAssociation read outside its vector
MayReadOutside(sensor_range, observations, map_landmarks) ==
  \E k \in 1..Len(particles) :
     UpdateParticle(particles[k], sensor_range, <<1, 1>>, observations,
                    map_landmarks, CHOOSE g \in Garbage : TRUE).ub # {}

\* a loop that converts the elements of `observations` themselves
ObservationsAfterInPlace(observations, converted) == converted

\* the vector `observations` once a particle's observations have been
\* converted: the conversion works on the copy current_obs (first revision) or
\* on its by-value parameter (second revision), never on the vector
ObservationsAfter(observations, converted) == observations

RECURSIVE ObservationsAt(_, _, _, _, _, _)
\* the vector `observations` as the iteration for the k-th particle finds it
ObservationsAt(k, sensor_range, std_landmark, observations, map_landmarks, garbage) ==
  IF k = 1 THEN observations
  ELSE LET seen == ObservationsAt(k - 1, sensor_range, std_landmark, observations,
                                  map_landmarks, garbage)
       IN ObservationsAfter(seen,
                            UpdateParticle(particles[k - 1], sensor_range, std_landmark,
                                           seen, map_landmarks, garbage).conv)

updateWeights ==
  /\ ~aborted
  /\ calls < MaxCalls
  /\ \E sensor_range \in SensorRanges, std_landmark \in StdLandmarks,
        observations \in ObsLists, map_landmarks \in Maps :
     \E garbage \in IF MayReadOutside(sensor_range, observations, map_landmarks)
                    THEN Garbage ELSE {CHOOSE g \in Garbage : TRUE} :
       LET seen(k) == ObservationsAt(k, sensor_range, std_landmark, observations,
                                     map_landmarks, garbage)
           res == [k \in 1..Len(particles) |->
                     UpdateParticle(particles[k], sensor_range, std_landmark,
                                    seen(k), map_landmarks, garbage)]
           ub  == UNION {res[k].ub : k \in 1..Len(particles)}
           rec == Call("updateWeights",
                       [sensor_range |-> sensor_range, std_landmark |-> std_landmark,
                        observations |-> observations, map_landmarks |-> map_landmarks],
                       [k \in 1..Len(particles) |->
                          [src |-> seen(k), cands |-> res[k].cands,
                           conv |-> res[k].conv, assoc |-> res[k].assoc]],
                       ub, FALSE, << >>)
       IN \/ /\ particles' = [k \in 1..Len(particles) |->
                                [particles[k] EXCEPT !.weight = res[k].weight]]
             /\ last' = rec
             /\ aborted' = FALSE
          \/ \* the read outside the vector faults
             /\ ub # {}
             /\ particles' = particles
             /\ last' = rec
             /\ aborted' = TRUE
  /\ calls' = calls + 1
  /\ UNCHANGED <<rev, num_particles, is_initialized>>

\* ---- ParticleFilter::resample ----
\* no weight is positive: discrete_distribution is built with a zero sum
AllZero(weights) == Len(weights) > 0 /\ \A k \in 1..Len(weights) : weights[k] = Zero

\* a sampler that ignores the weights
DrawSupportAll(weights) == 1..Len(weights)

\* the indices weights_dist(gen) may return
DrawSupport(weights) ==
  IF AllZero(weights) THEN 1..Len(weights)
  ELSE {k \in 1..Len(weights) : weights[k] # Zero}

resample ==
  /\ ~aborted
  /\ calls < MaxCalls
  /\ LET particlesCopy == particles
         weights == [k \in 1..Len(particlesCopy) |-> particlesCopy[k].weight]
     IN \E draw \in [1..Len(particlesCopy) -> DrawSupport(weights)] :
          /\ particles' = [k \in 1..Len(particlesCopy) |-> particlesCopy[draw[k]]]
          /\ last' = Call("resample", NoArgs, << >>,
                          IF AllZero(weights) THEN {"undefined_distribution"} ELSE {},
                          FALSE, << >>)
  /\ calls' = calls + 1
  /\ UNCHANGED <<rev, num_particles, is_initialized, aborted>>

\* ---- the filter ----
Init ==
  /\ rev \in {1, 2}
  /\ particles = << >>
  /\ num_particles = 0
  /\ is_initialized = FALSE
  /\ aborted = FALSE
  /\ calls = 0
  /\ last = [op |-> "none", args |-> NoArgs, before |-> << >>, wasInit |-> FALSE,
             assoc |-> << >>, ub |-> {}, raised |-> FALSE, draws |-> << >>,
             repeat |-> FALSE]

Next == init \/ prediction \/ updateWeights \/ resample

Spec == Init /\ [][Next]_vars

\* ---- properties ----
Returned(op) == last.op = op /\ ~aborted

WeightsOf(ps) == [k \in 1..Len(ps) |-> ps[k].weight]

\* C1: once init has returned, the collection holds num_particles particles,
\* whatever calls (a second init included) have been made since.
C1_SizeIsNumParticles ==
  is_initialized => Len(particles) = num_particles

\* C2: right after any init call returns, every particle has weight 1.0 and
\* the ids are 0 .. num_particles-1 in order.
C2_InitWeightsAndIds ==
  Returned("init") =>
    /\ Len(particles) = num_particles
    /\ \A k \in 1..Len(particles) :
         particles[k].weight = One /\ particles[k].id = k - 1

\* C3: updateWeights overwrites the weights: particles with the same pose leave
\* the call with the same weight whatever weight they had, and a second call
\* with the arguments of the call before it changes nothing.
C3_UpdateOverwrites ==
  (Returned("updateWeights") /\ last.ub = {}) =>
    /\ \A a, b \in 1..Len(particles) :
         (particles[a].x = particles[b].x /\ particles[a].y = particles[b].y
            /\ particles[a].theta = particles[b].theta)
         => particles[a].weight = particles[b].weight
    /\ last.repeat => particles = last.before

\* C4: after updateWeights with an empty observation list every weight is 1.0,
\* whatever the weights were.
C4_EmptyObservationsGiveOne ==
  (Returned("updateWeights") /\ last.args.observations = << >>) =>
    \A k \in 1..Len(particles) : particles[k].weight = One

\* C5: for a non-empty candidate sequence, dataAssociation (second revision)
\* returns one landmark per observation in order, each the candidate of
\* smallest index among those nearest to its observation.
C5_NearestSmallestIndex ==
  (Returned("updateWeights") /\ rev = 2) =>
    \A k \in 1..Len(last.assoc) :
      LET t == last.assoc[k] IN
      Len(t.cands) > 0 =>
        /\ Len(t.assoc) = Len(t.conv)
        /\ \A m \in 1..Len(t.assoc) :
             LET D(c) == dist(t.cands[c].x_f, t.cands[c].y_f, t.conv[m].x, t.conv[m].y)
                 i == t.assoc[m].idx
             IN /\ i \in 1..Len(t.cands)
                /\ t.assoc[m].x = t.cands[i].x_f /\ t.assoc[m].y = t.cands[i].y_f
                /\ \A c \in 1..Len(t.cands) : D(i) <= D(c)
                /\ \A c \in 1..Len(t.cands) : D(c) = D(i) => i <= c

\* C6: with an empty candidate set and a non-empty observation list,
\* dataAssociation emits no association and reads no landmark outside the
\* candidate vector.
C6_EmptyCandidatesDefined ==
  last.op = "updateWeights" =>
    \A k \in 1..Len(last.assoc) :
      LET t == last.assoc[k] IN
      (Len(t.cands) = 0 /\ Len(t.conv) > 0) =>
        Len(t.assoc) = 0 /\ "out_of_range_read" \notin last.ub

\* C7: when some particle has a positive weight, every particle after resample
\* is an unmodified copy of a particle of the prior generation whose weight
\* was positive.
C7_ResampleCopiesPositive ==
  (Returned("resample") /\ \E j \in 1..Len(last.before) : last.before[j].weight # Zero) =>
    /\ Len(particles) = Len(last.before)
    /\ \A k \in 1..Len(particles) :
         \E j \in 1..Len(last.before) :
            last.before[j].weight # Zero /\ particles[k] = last.before[j]

\* a resample has run over a generation holding both a zero and a positive weight
C7_Witness ==
  /\ Returned("resample")
  /\ \E j \in 1..Len(last.before) : last.before[j].weight # Zero
  /\ \E j \in 1..Len(last.before) : last.before[j].weight = Zero
  /\ Len(particles) > 1

\* C8: resample over all-zero weights takes a defined fallback: it samples no
\* undefined distribution and still yields copies of prior particles.
C8_AllZeroFallback ==
  (last.op = "resample" /\ AllZero(WeightsOf(last.before))) =>
    /\ "undefined_distribution" \notin last.ub
    /\ Len(particles) = Len(last.before)
    /\ \A k \in 1..Len(particles) :
         \E j \in 1..Len(last.before) : particles[k] = last.before[j]

\* C9: prediction, updateWeights or resample called before any init reports a
\* failure instead of returning normally.
C9_FailFastBeforeInit ==
  (last.op \in {"prediction", "updateWeights", "resample"} /\ ~last.wasInit) =>
    last.raised

\* exactly one init has run: every init adds num_particles particles and no
\* other call changes their number
OneInit == is_initialized /\ Len(particles) = num_particles

\* C10: after init and any sequence of prediction, updateWeights and resample,
\* no two particles of the collection have the same id.
C10_IdsDistinct ==
  OneInit =>
    \A a, b \in 1..Len(particles) : a # b => particles[a].id # particles[b].id

\* the map landmarks within sensor_range of the pose of particle p
LandmarksInRangeOf(p, sensor_range, map_landmarks) ==
  {map_landmarks[c] : c \in {c \in 1..Len(map_landmarks) :
      InRange(dist(p.x, p.y, map_landmarks[c].x_f, map_landmarks[c].y_f), sensor_range)}}

\* C11: in updateWeights the candidates of a particle are exactly the map
\* landmarks within sensor_range of that particle's own position: the landmark
\* that enters the weight for an observation is one of them, and none of them
\* is nearer to the transformed observation.
C11_CandidatesWithinRangeOfParticle ==
  (Returned("updateWeights") /\ last.ub = {}) =>
    \A k \in 1..Len(last.assoc) :
      LET t == last.assoc[k]
          inRange == LandmarksInRangeOf(last.before[k], last.args.sensor_range,
                                        last.args.map_landmarks)
      IN \A m \in 1..Len(t.assoc) :
           \E lm \in inRange :
              /\ lm.id_i = t.assoc[m].id
              /\ lm.x_f = t.assoc[m].x /\ lm.y_f = t.assoc[m].y
              /\ \A other \in inRange :
                   dist(lm.x_f, lm.y_f, t.conv[m].x, t.conv[m].y)
                     <= dist(other.x_f, other.y_f, t.conv[m].x, t.conv[m].y)

RECURSIVE Rotate(_, _)
\* the vector v = <<x, y>> turned by q quarter turns, one quarter turn at a time
Rotate(v, q) == IF q = 0 THEN v ELSE Rotate(<<-v[2], v[1]>>, q - 1)

\* rotate the vehicle-frame observation by the particle's heading, then
\* translate it by the particle's position
RotateThenTranslate(observation, particle) ==
  LET r == Rotate(<<observation.x, observation.y>>, particle.theta % 4)
  IN <<particle.x + r[1], particle.y + r[2]>>

\* C12: convertVehicleToMapCoords computes both map coordinates from the
\* untransformed observation, mapX = px + ox*cos - oy*sin and
\* mapY = py + ox*sin + oy*cos, which for quarter-turn headings is the
\* observation rotated by the heading and translated by the position.
C12_TransformFromOriginalObservation ==
  Returned("updateWeights") =>
    \A k \in 1..Len(last.assoc) :
      \A m \in 1..Len(last.assoc[k].conv) :
        LET o  == last.args.observations[m]
            p  == last.before[k]
            c  == last.assoc[k].conv[m]
        IN /\ c.x = p.x + o.x * Cos(p.theta) - o.y * Sin(p.theta)
           /\ c.y = p.y + o.x * Sin(p.theta) + o.y * Cos(p.theta)
           /\ <<c.x, c.y>> = RotateThenTranslate(o, p)

\* the pose and id of a particle, its weight left out
Frame(p) == [id |-> p.id, x |-> p.x, y |-> p.y, theta |-> p.theta]

\* C13: updateWeights changes nothing but weights: the particles keep their
\* number, order, id, x, y and theta, and every particle transforms the
\* observation list as it was passed in.
C13_UpdateChangesOnlyWeights ==
  Returned("updateWeights") =>
    /\ Len(particles) = Len(last.before)
    /\ \A k \in 1..Len(particles) : Frame(particles[k]) = Frame(last.before[k])
    /\ \A k \in 1..Len(last.assoc) : last.assoc[k].src = last.args.observations

\* updateWeights has run over two particles or more, with observations that
\* the first particle's pose transforms to other coordinates, and has changed
\* a weight
C13_Witness ==
  /\ Returned("updateWeights")
  /\ Len(particles) >= 2
  /\ last.args.observations # << >>
  /\ last.assoc[1].conv # last.args.observations
  /\ \E k \in 1..Len(particles) : particles[k].weight # last.before[k].weight

\* C14: the noise of prediction is drawn fresh on every call: a prediction
\* that follows a prediction with the same noise std does not go through the
\* engine states, in the same order, that the one before it went through.
C14_FreshDrawsPerCall ==
  [][(last.op = "prediction" /\ last'.op = "prediction" /\ ~aborted'
        /\ Len(particles) > 0
        /\ last'.args.std_pos = last.args.std_pos /\ ~StdInvalid(last.args.std_pos))
     => last'.draws # last.draws]_vars

\* the last prediction was made with zero velocity, yaw rate and noise std
ZeroPrediction ==
  /\ last.op = "prediction"
  /\ last.args.velocity = 0 /\ last.args.yaw_rate = 0
  /\ last.args.std_pos = <<0, 0, 0>>

\* C15: prediction with velocity 0, yaw_rate 0 and all noise std 0 leaves
\* every particle (x, y, theta, weight and id) as it was, for any delta_t and
\* however often it is repeated.
C15_ZeroPredictionIsIdentity ==
  ZeroPrediction => particles = last.before

\* a zero prediction has been repeated, with delta_t = 2, over particles of
\* which one is away from the origin with a heading that is not zero
C15_Witness ==
  /\ ZeroPrediction /\ ~aborted
  /\ last.repeat
  /\ last.args.delta_t = 2
  /\ Len(particles) >= 2
  /\ \E k \in 1..Len(particles) : particles[k].x # 0 /\ particles[k].theta % 4 # 0
====
